---- MODULE Spec2Model ----
(***************************************************************************)
(* Strangers with Stories: the story submission gate (schema validation,   *)
(* category check, profanity filter, is_legitimate_story), the stories     *)
(* table and the public and admin endpoints that read and change it.       *)
(*                                                                         *)
(* A text is a sequence of characters; a character is a one-character      *)
(* string, except the em dash and en dash, written "U+2014" and "U+2013".  *)
(***************************************************************************)
EXTENDS Integers, Sequences, FiniteSets, TLC

VARIABLES
    stories,    \* the rows of the stories table (database.py Story)
    seq,        \* the highest id the table has ever assigned
    dialect,    \* the database behind DATABASE_URL: "sqlite" or "postgresql"
    now,        \* datetime.utcnow(), as a logical clock
    last,       \* the last request served and its response
    memo,       \* one earlier request the observer noted, with its response
    draft       \* the text being typed by the submitting user

vars == <<stories, seq, dialect, now, last, memo, draft>>

----------------------------------------------------------------------------
(* Characters and the str methods the code uses.                           *)

LOWERCASE ==
    <<"a","b","c","d","e","f","g","h","i","j","k","l","m",
      "n","o","p","q","r","s","t","u","v","w","x","y","z">>

UPPERCASE ==
    <<"A","B","C","D","E","F","G","H","I","J","K","L","M",
      "N","O","P","Q","R","S","T","U","V","W","X","Y","Z">>

DIGITS == {"0","1","2","3","4","5","6","7","8","9"}

LETTERS == {LOWERCASE[i] : i \in 1..Len(LOWERCASE)} \cup {UPPERCASE[i] : i \in 1..Len(UPPERCASE)}

\* str.isspace(): the characters str.strip() removes and str.split() splits on
WHITESPACE == {" ", "\t", "\n", "\r", "\f"}

isalnum(c) == c \in LETTERS \cup DIGITS

\* str.lower() on one character
lower_char(c) ==
    IF \E i \in 1..Len(UPPERCASE) : UPPERCASE[i] = c
    THEN LOWERCASE[CHOOSE i \in 1..Len(UPPERCASE) : UPPERCASE[i] = c]
    ELSE c

\* str.lower()
lower(text) == [i \in 1..Len(text) |-> lower_char(text[i])]

RECURSIVE lstrip(_)
lstrip(text) ==
    IF text = <<>> THEN <<>>
    ELSE IF Head(text) \in WHITESPACE THEN lstrip(Tail(text))
    ELSE text

RECURSIVE rstrip(_)
rstrip(text) ==
    IF text = <<>> THEN <<>>
    ELSE IF text[Len(text)] \in WHITESPACE THEN rstrip(SubSeq(text, 1, Len(text) - 1))
    ELSE text

\* str.strip()
strip(text) == rstrip(lstrip(text))

\* str.count(char) for a one-character argument
RECURSIVE count(_, _)
count(text, char) ==
    IF text = <<>> THEN 0
    ELSE (IF Head(text) = char THEN 1 ELSE 0) + count(Tail(text), char)

\* the scan of str.split(): cur is the word being read, words those already read
RECURSIVE split_from(_, _, _)
split_from(text, cur, words) ==
    IF text = <<>> THEN (IF cur = <<>> THEN words ELSE Append(words, cur))
    ELSE IF Head(text) \in WHITESPACE
         THEN split_from(Tail(text), <<>>, IF cur = <<>> THEN words ELSE Append(words, cur))
    ELSE split_from(Tail(text), Append(cur, Head(text)), words)

\* str.split() with no separator: the maximal runs of non-whitespace
split(text) == split_from(text, <<>>, <<>>)

----------------------------------------------------------------------------
(* is_legitimate_story (main.py 38-69).                                    *)

\* len(text.strip()) < 10
MIN_STRIPPED_LEN == 10

\* the thresholds 0.3, 0.2 and 0.3, in tenths: for integers c and n, c > n * 0.3 in
\* binary floating point iff 10 * c > 3 * n, and c > n * 0.2 iff 10 * c > 2 * n
REPEAT_TENTHS == 3
SYMBOL_TENTHS == 2
GIBBERISH_TENTHS == 3

\* the word length above which a vowel-less word is gibberish
LONG_WORD == 8

\* ' .,!?;:\'"—–-'
PERMITTED == {" ", ".", ",", "!", "?", ";", ":", "'", "\"", "U+2014", "U+2013", "-"}

VOWELS == {"a", "e", "i", "o", "u"}

\* the length check on the text as it came
too_short_unstripped(text) == Len(text) < MIN_STRIPPED_LEN

\* if len(text.strip()) < 10
too_short(text) == Len(strip(text)) < MIN_STRIPPED_LEN

\* the repetition check with >= for >
repeated_ge(text) ==
    \E i \in 1..Len(text) : count(text, text[i]) * 10 >= Len(text) * REPEAT_TENTHS

\* for char in text: if text.count(char) > len(text) * 0.3
repeated(text) ==
    \E i \in 1..Len(text) : count(text, text[i]) * 10 > Len(text) * REPEAT_TENTHS

\* sum(1 for c in text if not c.isalnum() and c not in ' .,!?;:\'"—–-')
RECURSIVE non_alpha(_)
non_alpha(text) ==
    IF text = <<>> THEN 0
    ELSE (IF ~isalnum(Head(text)) /\ Head(text) \notin PERMITTED THEN 1 ELSE 0)
         + non_alpha(Tail(text))

\* the symbol check with >= for >
symbols_ge(text) == non_alpha(text) * 10 >= Len(text) * SYMBOL_TENTHS

\* if non_alpha > len(text) * 0.2
symbols(text) == non_alpha(text) * 10 > Len(text) * SYMBOL_TENTHS

\* vowels = sum(1 for c in word.lower() if c in 'aeiou')
RECURSIVE vowels(_)
vowels(word) ==
    IF word = <<>> THEN 0
    ELSE (IF lower_char(Head(word)) \in VOWELS THEN 1 ELSE 0) + vowels(Tail(word))

\* the word test with >= for >
is_gibberish_word_ge(word) == Len(word) >= LONG_WORD /\ vowels(word) = 0

\* len(word) > 8 and vowels == 0
is_gibberish_word(word) == Len(word) > LONG_WORD /\ vowels(word) = 0

RECURSIVE gibberish_count(_)
gibberish_count(words) ==
    IF words = <<>> THEN 0
    ELSE (IF is_gibberish_word(Head(words)) THEN 1 ELSE 0) + gibberish_count(Tail(words))

\* gibberish_count > len(words) * 0.3
gibberish(text) ==
    gibberish_count(split(text)) * 10 > Len(split(text)) * GIBBERISH_TENTHS

\* the symbol check run before the repetition check
legit_return_line_symbols_first(text) ==
    IF too_short(text) THEN 45
    ELSE IF symbols(text) THEN 55
    ELSE IF repeated(text) THEN 50
    ELSE IF gibberish(text) THEN 67
    ELSE 69

\* the line of is_legitimate_story's return statement that text reaches
legit_return_line(text) ==
    IF too_short(text) THEN 45
    ELSE IF repeated(text) THEN 50
    ELSE IF symbols(text) THEN 55
    ELSE IF gibberish(text) THEN 67
    ELSE 69

is_legitimate_story(text) == legit_return_line(text) = 69

----------------------------------------------------------------------------
(* profanity.contains_profanity (better_profanity, loaded at main.py 19):  *)
(* the text is cut into words, the maximal runs of the filter's word       *)
(* characters, and a word is profane when its lower-case form is in the    *)
(* censor word set.                                                        *)

ALLOWED_CHARACTERS == LETTERS \cup DIGITS \cup {"@", "$", "*", "\"", "'"}

\* two entries of the word list stand for the list
CENSOR_WORDSET == {<<"d","a","m","n">>, <<"c","r","a","p">>}

\* cur_word.lower() in self.CENSOR_WORDSET
is_swear_word(word) == lower(word) \in CENSOR_WORDSET

\* the scan of the filter: cur_word is the word being read
RECURSIVE scan_swear(_, _)
scan_swear(text, cur_word) ==
    IF text = <<>> THEN cur_word # <<>> /\ is_swear_word(cur_word)
    ELSE IF Head(text) \in ALLOWED_CHARACTERS
         THEN scan_swear(Tail(text), Append(cur_word, Head(text)))
    ELSE (cur_word # <<>> /\ is_swear_word(cur_word)) \/ scan_swear(Tail(text), <<>>)

contains_profanity(text) == scan_swear(text, <<>>)

----------------------------------------------------------------------------
(* The request schema (models.py StoryCreate) and the stories table        *)
(* (database.py Story).                                                    *)

NULL == "NULL"

\* story_text: str = Field(..., min_length=10, max_length=10000)
MIN_LENGTH == 10
MAX_LENGTH == 10000

ALLOWED_CATEGORIES == <<"Love", "Wisdom", "Regret", "Joy", "Pain", "Change", "Other">>

allowed_category(category) == \E i \in 1..Len(ALLOWED_CATEGORIES) : ALLOWED_CATEGORIES[i] = category

\* pydantic's validation of the request body, which FastAPI runs before the handler
StoryCreate_error(story) ==
    IF Len(story.story_text) < MIN_LENGTH THEN "string_too_short"
    ELSE IF Len(story.story_text) > MAX_LENGTH THEN "string_too_long"
    ELSE "valid"

\* a row that is public from the start
Story_approved(id, story, created_at) ==
    [id |-> id,
     title |-> story.title,
     author_name |-> story.author_name,
     author_email |-> story.author_email,
     story_text |-> story.story_text,
     category |-> story.category,
     approved |-> TRUE,
     created_at |-> created_at,
     updated_at |-> created_at]

\* a row of the stories table, as create_story builds it
Story(id, story, created_at) ==
    [id |-> id,
     title |-> story.title,
     author_name |-> story.author_name,
     author_email |-> story.author_email,
     story_text |-> story.story_text,
     category |-> story.category,
     approved |-> FALSE,
     created_at |-> created_at,
     updated_at |-> created_at]

\* the fields the public endpoints return
StoryResponse(s) ==
    [id |-> s.id, title |-> s.title, author_name |-> s.author_name,
     story_text |-> s.story_text, category |-> s.category,
     created_at |-> s.created_at, approved |-> s.approved]

\* the admin view adds the email
StoryAdmin(s) ==
    [id |-> s.id, title |-> s.title, author_name |-> s.author_name,
     story_text |-> s.story_text, category |-> s.category,
     created_at |-> s.created_at, approved |-> s.approved,
     author_email |-> s.author_email]

Max(S) == CHOOSE x \in S : \A y \in S : y <= x

\* the id the table gives a new row: SQLite's INTEGER PRIMARY KEY takes one more
\* than the largest id in the table, a PostgreSQL serial one more than its sequence
next_id ==
    IF dialect = "sqlite"
    THEN (IF stories = {} THEN 1 ELSE Max({s.id : s \in stories}) + 1)
    ELSE seq + 1

\* order_by(Story.created_at.desc())
RECURSIVE order_by_created_at_desc(_)
order_by_created_at_desc(rows) ==
    IF rows = {} THEN <<>>
    ELSE LET first == CHOOSE r \in rows : \A o \in rows : o.created_at <= r.created_at
         IN  <<first>> \o order_by_created_at_desc(rows \ {first})

----------------------------------------------------------------------------
(* Bounds of the model and the inputs the requests are drawn from.         *)

MaxStories == 2     \* rows the table holds at most
MaxClock == 4       \* writes that take a timestamp
MaxId == 3          \* story ids the admin and read requests name
MaxTyped == 3       \* characters typed after the opening of a draft

Ids == 1..MaxId

\* the category a request names: two of the allowed ones and one that is not
Categories == {"Love", "Joy", "Bogus"}

TEXT_HOME == <<"I"," ","m","i","s","s"," ","h","o","m","e">>
TEXT_MAY == <<"w","e"," ","m","e","t"," ","i","n"," ","m","a","y">>
TEXT_PROFANE == <<"w","h","a","t"," ","a"," ","d","a","m","n">>
TEXT_SPAM == <<"a","a","a","a","a","a","a","a","a","a">>
TEXT_BRIEF == <<"t","o","o"," ","b","r","i","e","f">>
TEXT_PADDED == <<"b","r","i","e","f"," "," "," "," "," ">>

StoryCreate(story_text, category) ==
    [title |-> NULL, author_name |-> NULL, author_email |-> NULL,
     story_text |-> story_text, category |-> category]

\* the request bodies of the workflow
Submissions ==
    {StoryCreate(TEXT_HOME, "Love"), StoryCreate(TEXT_MAY, "Joy"),
     StoryCreate(TEXT_HOME, "Bogus"), StoryCreate(TEXT_PROFANE, "Love"),
     StoryCreate(TEXT_SPAM, "Joy"), StoryCreate(TEXT_BRIEF, "Love"),
     StoryCreate(TEXT_PADDED, "Love")}

NoStory == StoryCreate(<<>>, NULL)

NoRequest ==
    [op |-> "none", story |-> NoStory, story_id |-> 0, category |-> NULL,
     status |-> 0, detail |-> "", id |-> 0, body |-> <<>>, line |-> 0, legit_line |-> 0]

\* a response: the request with the status, the detail of an HTTPException, the id
\* and the rows returned, the line of main.py that ends the handler, and the line
\* at which is_legitimate_story returned (0 when it was not called)
Response(request, status, detail, id, body, line, legit_line) ==
    [request EXCEPT !.status = status, !.detail = detail, !.id = id, !.body = body,
                    !.line = line, !.legit_line = legit_line]

Init ==
    /\ stories = {}
    /\ seq = 0
    /\ dialect \in {"sqlite", "postgresql"}
    /\ now = 0
    /\ last = NoRequest
    /\ memo = NoRequest
    /\ draft = <<>>

----------------------------------------------------------------------------
(* The endpoints (main.py).                                                *)

DETAIL_CATEGORY == "Invalid category"
DETAIL_PROFANITY == "Your story contains inappropriate language. Please revise and resubmit."
DETAIL_NOT_A_STORY == "Your submission doesn't look like a real story. Please try again."
DETAIL_NOT_FOUND == "Story not found"
DETAIL_NONE_APPROVED == "No approved stories yet"

\* the legitimacy check run before the profanity filter
create_story_response_legit_first(story) ==
    LET request == [NoRequest EXCEPT !.op = "create_story", !.story = story] IN
    IF StoryCreate_error(story) # "valid"
    THEN Response(request, 422, StoryCreate_error(story), 0, <<>>, 134, 0)
    ELSE IF ~allowed_category(story.category)
    THEN Response(request, 400, DETAIL_CATEGORY, 0, <<>>, 137, 0)
    ELSE IF ~is_legitimate_story(story.story_text)
    THEN Response(request, 400, DETAIL_NOT_A_STORY, 0, <<>>, 148,
                  legit_return_line(story.story_text))
    ELSE IF contains_profanity(story.story_text)
    THEN Response(request, 400, DETAIL_PROFANITY, 0, <<>>, 141, 0)
    ELSE Response(request, 200, "Story submitted for review", next_id, <<>>, 166,
                  legit_return_line(story.story_text))

\* a text already in the table turned away as spam
create_story_response_no_repeats(story) ==
    LET request == [NoRequest EXCEPT !.op = "create_story", !.story = story] IN
    IF StoryCreate_error(story) # "valid"
    THEN Response(request, 422, StoryCreate_error(story), 0, <<>>, 134, 0)
    ELSE IF ~allowed_category(story.category)
    THEN Response(request, 400, DETAIL_CATEGORY, 0, <<>>, 137, 0)
    ELSE IF contains_profanity(story.story_text)
    THEN Response(request, 400, DETAIL_PROFANITY, 0, <<>>, 141, 0)
    ELSE IF ~is_legitimate_story(story.story_text)
            \/ \E s \in stories : s.story_text = story.story_text
    THEN Response(request, 400, DETAIL_NOT_A_STORY, 0, <<>>, 148,
                  legit_return_line(story.story_text))
    ELSE Response(request, 200, "Story submitted for review", next_id, <<>>, 166,
                  legit_return_line(story.story_text))

\* the response of POST /api/stories to the request body story, and the row it adds
create_story_response(story) ==
    LET request == [NoRequest EXCEPT !.op = "create_story", !.story = story] IN
    IF StoryCreate_error(story) # "valid"
    THEN Response(request, 422, StoryCreate_error(story), 0, <<>>, 134, 0)
    ELSE IF ~allowed_category(story.category)
    THEN Response(request, 400, DETAIL_CATEGORY, 0, <<>>, 137, 0)
    ELSE IF contains_profanity(story.story_text)
    THEN Response(request, 400, DETAIL_PROFANITY, 0, <<>>, 141, 0)
    ELSE IF ~is_legitimate_story(story.story_text)
    THEN Response(request, 400, DETAIL_NOT_A_STORY, 0, <<>>, 148,
                  legit_return_line(story.story_text))
    ELSE Response(request, 200, "Story submitted for review", next_id, <<>>, 166,
                  legit_return_line(story.story_text))

create_story(story) ==
    LET response == create_story_response(story) IN
    /\ last' = response
    /\ IF response.status = 200
       THEN /\ Cardinality(stories) < MaxStories
            /\ now < MaxClock
            /\ now' = now + 1
            /\ stories' = stories \cup {Story(response.id, story, now + 1)}
            /\ seq' = IF response.id > seq THEN response.id ELSE seq
       ELSE UNCHANGED <<stories, seq, now>>
    /\ UNCHANGED dialect

get_public_stories(category) ==
    LET request == [NoRequest EXCEPT !.op = "get_public_stories", !.category = category]
        approved == {s \in stories : s.approved = TRUE}
    IN
    /\ last' = IF category # NULL /\ ~allowed_category(category)
               THEN Response(request, 400, DETAIL_CATEGORY, 0, <<>>, 93, 0)
               ELSE LET rows == IF category # NULL
                                THEN {s \in approved : s.category = category}
                                ELSE approved
                        sorted == order_by_created_at_desc(rows)
                    IN  Response(request, 200, "", 0,
                                 [i \in 1..Len(sorted) |-> StoryResponse(sorted[i])], 96, 0)
    /\ UNCHANGED <<stories, seq, dialect, now>>

get_random_story ==
    LET request == [NoRequest EXCEPT !.op = "get_random_story"]
        approved == {s \in stories : s.approved = TRUE}
    IN
    /\ IF approved = {}
       THEN last' = Response(request, 404, DETAIL_NONE_APPROVED, 0, <<>>, 104, 0)
       ELSE \E random_story \in approved :
                last' = Response(request, 200, "", 0, <<StoryResponse(random_story)>>, 109, 0)
    /\ UNCHANGED <<stories, seq, dialect, now>>

\* the query without its approved filter
get_story_unfiltered(story_id) ==
    LET request == [NoRequest EXCEPT !.op = "get_story", !.story_id = story_id]
        found == {s \in stories : s.id = story_id}
    IN
    /\ IF found = {}
       THEN last' = Response(request, 404, DETAIL_NOT_FOUND, 0, <<>>, 128, 0)
       ELSE \E story \in found :
                last' = Response(request, 200, "", 0, <<StoryResponse(story)>>, 130, 0)
    /\ UNCHANGED <<stories, seq, dialect, now>>

get_story(story_id) ==
    LET request == [NoRequest EXCEPT !.op = "get_story", !.story_id = story_id]
        found == {s \in stories : s.id = story_id /\ s.approved = TRUE}
    IN
    /\ IF found = {}
       THEN last' = Response(request, 404, DETAIL_NOT_FOUND, 0, <<>>, 128, 0)
       ELSE \E story \in found :
                last' = Response(request, 200, "", 0, <<StoryResponse(story)>>, 130, 0)
    /\ UNCHANGED <<stories, seq, dialect, now>>

get_pending_stories ==
    LET request == [NoRequest EXCEPT !.op = "get_pending_stories"]
        sorted == order_by_created_at_desc(stories)
    IN
    /\ last' = Response(request, 200, "", 0,
                        [i \in 1..Len(sorted) |-> StoryAdmin(sorted[i])], 176, 0)
    /\ UNCHANGED <<stories, seq, dialect, now>>

approve_story(story_id) ==
    LET request == [NoRequest EXCEPT !.op = "approve_story", !.story_id = story_id]
        found == {s \in stories : s.id = story_id}
    IN
    /\ IF found = {}
       THEN /\ last' = Response(request, 404, DETAIL_NOT_FOUND, 0, <<>>, 184, 0)
            /\ UNCHANGED <<stories, now>>
       ELSE \E story \in found :
                /\ now < MaxClock
                /\ now' = now + 1
                /\ stories' = (stories \ {story})
                                \cup {[story EXCEPT !.approved = TRUE, !.updated_at = now + 1]}
                /\ last' = Response(request, 200, "Story approved", 0, <<>>, 190, 0)
    /\ UNCHANGED <<seq, dialect>>

reject_story(story_id) ==
    LET request == [NoRequest EXCEPT !.op = "reject_story", !.story_id = story_id]
        found == {s \in stories : s.id = story_id}
    IN
    /\ IF found = {}
       THEN /\ last' = Response(request, 404, DETAIL_NOT_FOUND, 0, <<>>, 198, 0)
            /\ UNCHANGED stories
       ELSE \E story \in found :
                /\ stories' = stories \ {story}
                /\ last' = Response(request, 200, "Story deleted", 0, <<>>, 203, 0)
    /\ UNCHANGED <<seq, dialect, now>>

---------------------------------------------------------------------------------------------------------------------------------------------------
(* The moderation workflow: any sequence of requests.                      *)

observer == <<memo, draft>>

Submit == \E story \in Submissions : create_story(story) /\ UNCHANGED observer

ListPublic ==
    \E category \in Categories \cup {NULL} : get_public_stories(category) /\ UNCHANGED observer

Random == get_random_story /\ UNCHANGED observer

Read == \E story_id \in Ids : get_story(story_id) /\ UNCHANGED observer

ListAll == get_pending_stories /\ UNCHANGED observer

Approve == \E story_id \in Ids : approve_story(story_id) /\ UNCHANGED observer

Reject == \E story_id \in Ids : reject_story(story_id) /\ UNCHANGED observer

Next == Submit \/ ListPublic \/ Random \/ Read \/ ListAll \/ Approve \/ Reject

Spec == Init /\ [][Next]_vars

--------------------------------------------------------------------------------------------------------------------------------------------------------------------------------------------------------------------------
(* The workflow of submissions and moderation with an observer, who notes  *)
(* one answered request and keeps that note: a submission in SpecHistory,  *)
(* a deletion in SpecDeleted.                                              *)

NoteOnce(note) == memo' \in (IF memo.op = "none" THEN {memo, note} ELSE {memo})

\* the request bodies the observed workflow posts: two stories and spam
Resubmissions ==
    {StoryCreate(TEXT_HOME, "Love"), StoryCreate(TEXT_MAY, "Joy"), StoryCreate(TEXT_SPAM, "Joy")}

SubmitNoted ==
    \E story \in Resubmissions : create_story(story) /\ NoteOnce(last') /\ UNCHANGED draft

Resubmit == \E story \in Resubmissions : create_story(story) /\ UNCHANGED observer

RejectNoted ==
    \E story_id \in Ids : reject_story(story_id) /\ NoteOnce(last') /\ UNCHANGED draft

NextHistory == SubmitNoted \/ Approve \/ Reject

SpecHistory == Init /\ [][NextHistory]_vars

NextDeleted == Resubmit \/ Approve \/ RejectNoted

SpecDeleted == Init /\ [][NextDeleted]_vars

-----
(* One submission of a typed text: the user opens with one of the openings,*)
(* types further characters and posts the draft once, to an empty table.   *)

OPEN_FAMILY == <<"T","o","d","a","y"," ","I"," ","l","e","a","r","n","e","d"," ","s","o","m","e","t","h","i","n","g"," ","i","m","p","o","r","t","a","n","t"," ","a","b","o","u","t"," ","m","y"," ","f","a","m","i","l","y"," ","a","n","d"," ","o","u","r"," ","p","a","s","t",".">>
OPEN_REPEATED == <<"a","a","a","a","a","a","a","a","a","a","a","a","a","a","a","a","a","a","a","a">>
OPEN_SYMBOLS == <<"!","!","!","!","#","#","#","@","@","@","$","$","$","%","%","%","^","^","^","&","&","&">>
OPEN_GIBBERISH == <<"X","q","z","v","b","n","m","f","j","h","p","l"," ","x","q","z","v","b","n","m","f","j","h","p","l"," ","x","q","z","v","b","n","m","f","j","h","p","l">>
OPEN_PLAIN == <<"a","b","c","d","e","f","g","x">>
OPEN_HASH == <<"a","b","c","d","e","f","g","#">>
OPEN_SWEAR == <<"o","h"," ","d","a","m","n">>
OPEN_SWEAR_CASED == <<"w","h","a","t"," ","a"," ","D","a","M","n">>
OPEN_SWEAR_SYMBOLS == <<"c","r","a","p"," ","#","#","#","#">>
OPEN_THREE_IN_NINE == <<"b","c","d","f","g","h","j","k","l"," ","b","c","d","f","g","h","j","k","l"," ","b","c","d","f","g","h","j","k","l"," ","w","e"," ","g","o"," ","t","o"," ","a","n"," ","o","l","d"," ","i","n","n"," ">>
OPEN_EIGHT_LONG == <<"b","c","d","f","g","h","j","k"," ","b","c","d","f","g","h","j","k">>
OPEN_BLANK == <<" "," "," "," "," "," "," ">>
OPEN_CASES == <<"A","a","A","a","b","c","d","e","f","g">>
OPEN_PUNCTUATION == <<"a","U+2014","b","U+2013","c","-","d","'","e","\"","f">>
OPEN_LINES == <<"l","i","n","e"," ","o","n","e","\n","l","i","n","e"," ","t","w","o">>
OPEN_SHORT_REPEATED == <<"a","a","a","a","a","a","a">>

Openings ==
    {OPEN_FAMILY,
     OPEN_REPEATED,
     OPEN_SYMBOLS,
     OPEN_GIBBERISH,
     OPEN_PLAIN,
     OPEN_HASH,
     OPEN_SWEAR,
     OPEN_SWEAR_CASED,
     OPEN_SWEAR_SYMBOLS,
     OPEN_THREE_IN_NINE,
     OPEN_EIGHT_LONG,
     OPEN_BLANK,
     OPEN_CASES,
     OPEN_PUNCTUATION,
     OPEN_LINES,
     OPEN_SHORT_REPEATED}

\* a repeated letter, an upper-case vowel, whitespace, a symbol, punctuation
Typed == {"x", "E", " ", "#", "."}

InitEval ==
    /\ stories = {}
    /\ seq = 0
    /\ dialect = "sqlite"
    /\ now = 0
    /\ last = NoRequest
    /\ memo = NoRequest
    /\ draft \in Openings

TypeChar ==
    /\ last.op = "none"
    /\ \E opening \in Openings :
          /\ Len(draft) >= Len(opening)
          /\ Len(draft) < Len(opening) + MaxTyped
          /\ SubSeq(draft, 1, Len(opening)) = opening
    /\ \E char \in Typed : draft' = Append(draft, char)
    /\ UNCHANGED <<stories, seq, dialect, now, last, memo>>

PostDraft ==
    /\ last.op = "none"
    /\ \E category \in {"Love", "Bogus"} : create_story(StoryCreate(draft, category))
    /\ UNCHANGED observer

NextEval == TypeChar \/ PostDraft

SpecEval == InitEval /\ [][NextEval]_vars

----------------------------------------------------------------------------
(* What the claims speak of, stated on the posted text position by         *)
(* position, apart from the functions above.                               *)

Posted == last.op = "create_story"

PostedText == last.story.story_text

PostedCategoryValid ==
    last.story.category \in {"Love", "Wisdom", "Regret", "Joy", "Pain", "Change", "Other"}

SchemaValid(t) == Len(t) >= 10 /\ Len(t) <= 10000

Accepted == last.status = 200
RejectedProfanity == last.status = 400 /\ last.detail = DETAIL_PROFANITY
RejectedNotAStory == last.status = 400 /\ last.detail = DETAIL_NOT_A_STORY
RejectedBySchema == last.status = 422

Min(S) == CHOOSE x \in S : \A y \in S : x <= y

Occurrences(t, c) == Cardinality({i \in DOMAIN t : t[i] = c})

MostFrequent(t) == Max({Occurrences(t, t[i]) : i \in DOMAIN t} \cup {0})

Inked(t) == {i \in DOMAIN t : t[i] \notin WHITESPACE}

TrimmedLen(t) == IF Inked(t) = {} THEN 0 ELSE Max(Inked(t)) - Min(Inked(t)) + 1

\* the positions at which a run of characters outside the set gaps starts
RunStarts(t, gaps) ==
    {i \in DOMAIN t : t[i] \notin gaps /\ (i = 1 \/ t[i - 1] \in gaps)}

RunEnd(t, gaps, i) ==
    Min({j \in i..Len(t) : j = Len(t) \/ t[j + 1] \in gaps})

WordStarts(t) == RunStarts(t, WHITESPACE)

LongVowelless(t) ==
    {i \in WordStarts(t) :
        LET j == RunEnd(t, WHITESPACE, i) IN
        /\ j - i + 1 > 8
        /\ \A k \in i..j : t[k] \notin {"a", "e", "i", "o", "u", "A", "E", "I", "O", "U"}}

PermittedPunctuation ==
    {" ", ".", ",", "!", "?", ";", ":", "'", "\"", "U+2014", "U+2013", "-"}

NonStandard(t) ==
    {i \in DOMAIN t : t[i] \notin LETTERS \cup DIGITS \cup PermittedPunctuation}

\* some word of t, between characters that are no word characters of the
\* filter, is a listed term in some casing
HasProfaneTerm(t) ==
    LET gaps == {t[i] : i \in DOMAIN t} \ ALLOWED_CHARACTERS IN
    \E i \in RunStarts(t, gaps) :
        LET j == RunEnd(t, gaps, i) IN
        \E term \in CENSOR_WORDSET :
            /\ Len(term) = j - i + 1
            /\ \A k \in 1..Len(term) : lower_char(t[i + k - 1]) = term[k]

ExceedsRepetition(t) == \E i \in DOMAIN t : 10 * Occurrences(t, t[i]) > 3 * Len(t)
ExceedsSymbols(t) == 10 * Cardinality(NonStandard(t)) > 2 * Len(t)
ExceedsGibberish(t) == 10 * Cardinality(LongVowelless(t)) > 3 * Cardinality(WordStarts(t))

----------------------------------------------------------------------------
\* C2 as stated: every posted text with a valid category that contains a listed
\* profane term, in any casing, is rejected with the profanity response.
C2_AsStated ==
    (Posted /\ PostedCategoryValid /\ HasProfaneTerm(PostedText)) => RejectedProfanity

\* C2, amended: every posted text of schema-valid length (10 to 10000 characters)
\* with a valid category that contains a listed profane term, in any casing, is
\* rejected with the profanity response, whatever the length and legitimacy checks
\* would say, and nothing is stored.
C2_ProfanityRejected ==
    (Posted /\ PostedCategoryValid /\ SchemaValid(PostedText) /\ HasProfaneTerm(PostedText))
        => (RejectedProfanity /\ stories = {})

\* no word of t is a listed term in the casing the list gives it
NoTermAsListed(t) ==
    LET gaps == {t[i] : i \in DOMAIN t} \ ALLOWED_CHARACTERS IN
    \A i \in RunStarts(t, gaps) : SubSeq(t, i, RunEnd(t, gaps, i)) \notin CENSOR_WORDSET

\* a term written in mixed case, in a text the length and legitimacy checks would
\* pass, is rejected for profanity
C2_Witness ==
    /\ Posted /\ PostedCategoryValid /\ SchemaValid(PostedText)
    /\ HasProfaneTerm(PostedText) /\ NoTermAsListed(PostedText)
    /\ is_legitimate_story(PostedText)
    /\ RejectedProfanity

----------------------------------------------------------------------------
----------------------------------------------------------------------------
\* C5: the repetition check, when a text reaches it, rejects (line 50) iff some
\* character value, case-sensitive and whitespace and punctuation included, occurs
\* more than 0.30 x len(text) times; and a text whose most frequent character
\* occurs exactly 0.30 x len(text) times is accepted when no other check fails.
C5_Repetition ==
    Posted =>
        /\ last.legit_line \notin {0, 45}
              => (last.legit_line = 50 <=> ExceedsRepetition(PostedText))
        /\ ( /\ PostedCategoryValid /\ SchemaValid(PostedText)
             /\ 10 * MostFrequent(PostedText) = 3 * Len(PostedText)
             /\ ~HasProfaneTerm(PostedText) /\ TrimmedLen(PostedText) >= 10
             /\ ~ExceedsSymbols(PostedText) /\ ~ExceedsGibberish(PostedText) )
              => Accepted

\* a text whose most frequent character is at exactly 0.30 is accepted
C5_Witness ==
    /\ Posted /\ Accepted
    /\ 10 * MostFrequent(PostedText) = 3 * Len(PostedText)

----------------------------------------------------------------------------
\* C6: the symbol check, when a text reaches it, rejects (line 55) iff the
\* characters that are neither alphanumeric nor permitted punctuation number
\* more than 0.20 x len(text); permitted punctuation is never counted.
C6_Symbols ==
    (Posted /\ last.legit_line \notin {0, 45, 50})
        => (last.legit_line = 55 <=> ExceedsSymbols(PostedText))

\* a text with symbols at exactly 0.20, and permitted punctuation beside them,
\* passes the check
C6_Witness ==
    /\ Posted /\ Accepted
    /\ NonStandard(PostedText) # {}
    /\ 10 * Cardinality(NonStandard(PostedText)) = 2 * Len(PostedText)
    /\ \E i \in DOMAIN PostedText : PostedText[i] \in PermittedPunctuation \ {" "}

----------------------------------------------------------------------------
\* C7: the gibberish check, when a text reaches it, rejects (line 67) iff the
\* whitespace-separated words longer than 8 with none of a, e, i, o, u in either
\* case number more than 0.30 x the word count; a text with no word never
\* reaches it: a length check rejects it first.
C7_Gibberish ==
    Posted =>
        /\ last.legit_line \in {67, 69}
              => (last.legit_line = 67 <=> ExceedsGibberish(PostedText))
        /\ (PostedCategoryValid /\ WordStarts(PostedText) = {})
              => \/ RejectedBySchema /\ last.detail = "string_too_short"
                 \/ RejectedNotAStory /\ last.legit_line = 45

\* three long vowel-less words in ten, exactly 0.30, are accepted
C7_Witness ==
    /\ Posted /\ Accepted
    /\ LongVowelless(PostedText) # {}
    /\ 10 * Cardinality(LongVowelless(PostedText)) = 3 * Cardinality(WordStarts(PostedText))

\* a text of whitespace alone, long enough for the schema, stops at the length check
C7_BlankReached ==
    /\ Posted /\ PostedCategoryValid /\ SchemaValid(PostedText)
    /\ WordStarts(PostedText) = {}
    /\ last.legit_line = 45

----------------------------------------------------------------------------
\* the verdict the stated order of checks gives a text: profanity, then length,
\* then repetition, symbols and gibberish
StatedVerdict(t) ==
    IF HasProfaneTerm(t) THEN "Profanity"
    ELSE IF TrimmedLen(t) < 10 THEN "TooShort"
    ELSE IF ExceedsRepetition(t) \/ ExceedsSymbols(t) \/ ExceedsGibberish(t) THEN "Spammy"
    ELSE "Accepted"

\* the verdict a response carries; the schema's string_too_short is the only
\* response that speaks of length
ResponseVerdict ==
    IF Accepted THEN "Accepted"
    ELSE IF RejectedProfanity THEN "Profanity"
    ELSE IF RejectedNotAStory THEN "Spammy"
    ELSE IF RejectedBySchema /\ last.detail = "string_too_short" THEN "TooShort"
    ELSE "Other"

----------------------------------------------------------------------------
PublicReads == {"get_public_stories", "get_random_story", "get_story"}

ReadsOnlyApproved ==
    last.op \in PublicReads =>
        \A i \in DOMAIN last.body :
            /\ last.body[i].approved = TRUE
            /\ \E s \in stories : s.approved = TRUE /\ StoryResponse(s) = last.body[i]

CreatedUnapproved ==
    (last'.op = "create_story" /\ last'.status = 200) =>
        \E s \in stories' \ stories : s.id = last'.id /\ s.approved = FALSE

ApprovedOnlyByApprove ==
    \A s \in stories' :
        s.approved = TRUE =>
            \/ s \in stories
            \/ last'.op = "approve_story" /\ last'.status = 200 /\ last'.story_id = s.id

\* C1: every story a public read endpoint returns has approved = true; a story is
\* stored by create_story with approved = false, and only a successful
\* approve_story for its id makes it approved, so no endpoint returns it before.
C1_OnlyApprovedPublic ==
    []ReadsOnlyApproved /\ [][CreatedUnapproved /\ ApprovedOnlyByApprove]_vars

\* a public read returns a story while another story waits unapproved
C1_Witness ==
    /\ last.op \in PublicReads /\ last.status = 200 /\ last.body # <<>>
    /\ \E s \in stories : s.approved = FALSE

----------------------------------------------------------------------------
\* C4: create_story changes the table only when it accepts: a rejected submission
\* (schema, category, profanity, is_legitimate_story) leaves the rows as they
\* were, an accepted one adds exactly one row, with the submitted text and
\* category, a fresh id and approved = false, and changes no other row.
C4_CreateFrame ==
    [][last'.op = "create_story" =>
          IF last'.status = 200
          THEN \E s \in stories' :
                  /\ s \notin stories
                  /\ stories' = stories \cup {s}
                  /\ \A o \in stories : o.id # s.id
                  /\ s.id = last'.id
                  /\ s.approved = FALSE
                  /\ s.story_text = last'.story.story_text
                  /\ s.category = last'.story.category
          ELSE /\ last'.status \in {400, 422}
               /\ stories' = stories]_vars

\* an accepted submission has joined an approved story, which is as it was
C4_Witness ==
    /\ Posted /\ Accepted
    /\ \E s \in stories : s.id = last.id /\ s.approved = FALSE
    /\ \E o \in stories : o.id # last.id /\ o.approved = TRUE

----------------------------------------------------------------------------
SameVerdictAsNoted ==
    ( /\ memo.op = "create_story" /\ Posted
      /\ memo.story.story_text = PostedText
      /\ allowed_category(memo.story.category) /\ PostedCategoryValid )
        => (memo.status = last.status /\ memo.detail = last.detail)

StoredAsSubmitted ==
    (Posted /\ Accepted) =>
        \E s \in stories : s.id = last.id /\ s.story_text = PostedText

RejectionChangesNothing ==
    (last'.op = "create_story" /\ last'.status # 200) => UNCHANGED <<stories, seq, now, dialect>>

\* C8: the verdict on a text is the same each time it is evaluated, whatever
\* submissions, approvals and deletions come between; the text is stored as it
\* was submitted, and an evaluation that rejects changes no stored state.
C8_PureVerdict ==
    [](SameVerdictAsNoted /\ StoredAsSubmitted) /\ [][RejectionChangesNothing]_vars

\* the same text accepted twice, the first copy approved in between
C8_Witness ==
    /\ memo.op = "create_story" /\ memo.status = 200
    /\ Posted /\ Accepted /\ memo.story.story_text = PostedText
    /\ memo.id # last.id
    /\ \E s \in stories : s.id = memo.id /\ s.approved = TRUE

----------------------------------------------------------------------------
\* C10 as stated, the part on deleted ids: once reject_story(id) has deleted a
\* story, a later approve_story(id) fails with 404 and makes no story public.
C10_AsStated ==
    ( /\ memo.op = "reject_story" /\ memo.status = 200
      /\ last.op = "approve_story" /\ last.story_id = memo.story_id )
        => (last.status = 404 /\ \A s \in stories : s.id # memo.story_id)

AbsentIdNotFound ==
    (last'.op \in {"approve_story", "reject_story"}
        /\ \A s \in stories : s.id # last'.story_id)
        => (last'.status = 404 /\ stories' = stories)

ApproveChangesOneRow ==
    (last'.op = "approve_story" /\ \E s \in stories : s.id = last'.story_id)
        => \E s \in stories :
              /\ s.id = last'.story_id
              /\ last'.status = 200
              /\ stories' = (stories \ {s})
                              \cup {[s EXCEPT !.approved = TRUE, !.updated_at = now']}

NeverUnapproved ==
    \A s \in stories : \A t \in stories' :
        (s.id = t.id /\ s.created_at = t.created_at /\ s.approved = TRUE) => t.approved = TRUE

\* C10, the parts that hold: approve_story and reject_story on an id no row has
\* answer 404 and change no row; approve_story on an id a row has sets that row's
\* approved flag (and updated_at) and changes no other row; no step makes an
\* approved row unapproved; and where ids are never reused (a PostgreSQL serial)
\* approve_story on a deleted id answers 404.
C10_RestHolds ==
    /\ [][AbsentIdNotFound /\ ApproveChangesOneRow /\ NeverUnapproved]_vars
    /\ [](dialect = "postgresql" => C10_AsStated)

====
